---- MODULE Spec2Model ----
(***************************************************************************)
(* Delulu Meter: the chat-log parser, the metric computations and the      *)
(* background job registry of delulu_meter_backend/main.py, and the        *)
(* parser and empty-table guard of streamlit_app.py.                       *)
(*                                                                         *)
(* Units.  A timestamp is a number of minutes (the backend's line pattern  *)
(* has no seconds): day * 1440 + minute of the day.  Rounded results are   *)
(* kept as scaled integers: reply times in tenths of a minute, interaction *)
(* gaps in hundredths of an hour, percentages and the harmony score in     *)
(* tenths of a percent, the harmony indicators in thousandths.             *)
(***************************************************************************)
EXTENDS Integers, Sequences, FiniteSets, TLC

\* ------------------------------------------------------------------ bounds

\* Largest number of lines of an upload in SpecOne.
MaxLines == 4

\* Largest number of lines of an upload in FairJob.
MaxLiveLines == 3

\* Largest number of jobs accepted in the registry specification.
MaxJobs == 2

\* Lines per chunk (chunkify's size, scaled down from the 1000 of the call at
\* main.py:71 so that an upload of MaxLines lines spans several chunks).
ChunkSize == 2

\* ------------------------------------------------------------- input lines

Authors == {"Alice", "Bob"}

MinutesPerDay == 24 * 60

\* A message, by what the code measures of it: len(m.split()), m.count('?'),
\* the emoji matches, the TextBlob polarity (thousandths) and the words
\* longer than three characters.  "hi" is the one message of the model.
Hi == [words |-> 1, qmarks |-> 0, emojis |-> 0, polarity |-> 0, keywords |-> <<>>]

\* A line of the export.  shape says which layout it has:
\*   "dash"     D/M/Y, H:MM - Author: Message
\*   "secs"     D/M/Y, H:MM:SS - Author: Message
\*   "bracket"  [D/M/Y, H:MM:SS] Author: Message
\*   "nocomma"  D/M/Y H:MM - Author: Message
\*   "text"     anything else (a continuation line, a system notice, "")
\* day is the day of the date, 0 when the digits name no calendar date
\* (45/45/2024); yd is the number of year digits; hm the minute of the day.
Line(shape, day, yd, hm, author) ==
    [shape |-> shape, day |-> day, yd |-> yd, hm |-> hm, author |-> author, msg |-> Hi]

EmptyLine == Line("text", 0, 0, 0, "")

\* D/M/2024, H:MM - author: hi
Dash(day, hm, author) == Line("dash", day, 4, hm, author)

\* The lines of the exports: five messages (two at the same minute, two on
\* one author's consecutive minutes, one on the next day), a line that is no
\* message, a message line whose date is no date, and a message line with
\* seconds.
Lines ==
    { Dash(1, 600, "Alice"), Dash(1, 600, "Bob"), Dash(1, 605, "Bob"),
      Dash(1, 606, "Bob"), Dash(2, 600, "Alice"),
      EmptyLine,
      Dash(0, 600, "Alice"),
      Line("secs", 1, 4, 600, "Bob") }

\* All sequences over S of length at most n.
RECURSIVE SeqsUpTo(_, _)
SeqsUpTo(S, n) ==
    IF n = 0 THEN { <<>> }
    ELSE LET shorter == SeqsUpTo(S, n - 1)
         IN  shorter \cup { Append(f, x) : f \in { g \in shorter : Len(g) = n - 1 }, x \in S }

\* The uploads of SpecOne.
Uploads == SeqsUpTo(Lines, MaxLines)

\* The uploads of FairJob.
LiveUploads == SeqsUpTo(Lines, MaxLiveLines)

\* The uploads of Spec: empty, unparseable, one record,
\* one author, the two-author scenario of the documentation, and one whose
\* lines are not in chronological order.
SampleUploads ==
    { <<>>,
      << EmptyLine, Dash(0, 600, "Alice") >>,
      << Dash(1, 600, "Alice") >>,
      << Dash(1, 600, "Alice"), Dash(1, 605, "Alice") >>,
      << Dash(1, 600, "Alice"), Dash(1, 605, "Bob"), Dash(1, 606, "Bob") >>,
      << Dash(1, 605, "Bob"), Dash(1, 600, "Alice") >> }

\* ------------------------------------------------------------------ state

VARIABLES
    RESULT_STORE,   \* main.py:22, task_id -> entry
    tasks,          \* the scheduled process_full_chat calls: task_id -> frame
    response,       \* the last value returned by analyze_chat or get_result
    dash            \* the run of the streamlit script on the uploaded file

vars == << RESULT_STORE, tasks, response, dash >>

\* ---------------------------------------------------------------- helpers

RECURSIVE SumSeq(_)
SumSeq(s) == IF s = <<>> THEN 0 ELSE Head(s) + SumSeq(Tail(s))

RECURSIVE MaxSeq(_)
MaxSeq(s) ==
    IF Len(s) = 1 THEN s[1]
    ELSE LET m == MaxSeq(Tail(s)) IN IF s[1] >= m THEN s[1] ELSE m

\* n / d rounded to an integer, halves to the even neighbour (n >= 0, d > 0):
\* what round(x, k) and Series.round(k) do to the scaled value.
RoundHalfEven(n, d) ==
    LET q == n \div d
        r == n % d
    IN  IF 2 * r < d THEN q
        ELSE IF 2 * r > d THEN q + 1
        ELSE IF q % 2 = 0 THEN q ELSE q + 1

\* d.setdefault(k, []).append(v)
setdefault_append(d, k, v) ==
    IF k \in DOMAIN d THEN [d EXCEPT ![k] = Append(@, v)] ELSE d @@ (k :> << v >>)

\* Series.value_counts() of a column (a sequence of values): value -> occurrences.
value_counts(column) ==
    [v \in { column[i] : i \in DOMAIN column } |->
        Cardinality({ i \in DOMAIN column : column[i] = v })]

\* ------------------------------------------------------- backend: parsing

\* chunkify(lst, size): the slices lst[i:i+size] for i = 0, size, 2*size, ...
chunkify(lst, size) ==
    [k \in 1..((Len(lst) + size - 1) \div size) |->
        SubSeq(lst, (k - 1) * size + 1,
               IF k * size < Len(lst) THEN k * size ELSE Len(lst))]

\* text.split("\n") of the decoded upload: the lines; an empty upload gives [""].
split_lines(file_bytes) == IF file_bytes = <<>> THEN << EmptyLine >> ELSE file_bytes

\* re.match of parse_chunk's pattern: only D/M/Y, H:MM - Author: Message.
pattern_match(line) == line.shape = "dash"

\* Not-a-time, the value errors='coerce' gives an unparseable date.
NaT == -1

\* pd.to_datetime(Date + ' ' + Time, errors='coerce', dayfirst=True)
to_datetime(line) ==
    IF line.day = 0 THEN NaT ELSE line.day * MinutesPerDay + line.hm

\* parse_chunk without df.dropna(subset=['DateTime']): the rows of every
\* matching line, a NaT DateTime included.
parse_chunk_keeps_nat(lines) ==
    LET data == SelectSeq(lines, pattern_match)
    IN  [i \in DOMAIN data |->
            [Author |-> data[i].author, Message |-> data[i].msg,
             DateTime |-> to_datetime(data[i])]]

\* parse_chunk(lines): the rows of the matching lines whose DateTime is not NaT.
parse_chunk(lines) ==
    LET data == SelectSeq(lines, pattern_match)
        kept == SelectSeq(data, LAMBDA l : to_datetime(l) # NaT)
    IN  [i \in DOMAIN kept |->
            [Author |-> kept[i].author, Message |-> kept[i].msg,
             DateTime |-> to_datetime(kept[i])]]

\* pd.concat(all_dfs)
RECURSIVE concat(_)
concat(dfs) == IF dfs = <<>> THEN <<>> ELSE Head(dfs) \o concat(Tail(dfs))

\* The loop of main.py:70-74: the non-empty frames of the chunks, in order.
all_dfs_of(file_bytes) ==
    LET chunks == chunkify(split_lines(file_bytes), ChunkSize)
        frames == [k \in DOMAIN chunks |-> parse_chunk(chunks[k])]
    IN  SelectSeq(frames, LAMBDA df_chunk : df_chunk # <<>>)

\* ------------------------------------------------------- backend: metrics

\* df['Author'] as a sequence.
author_column(df) == [i \in DOMAIN df |-> df[i].Author]

\* DateTime.dt.date and DateTime.dt.hour
dt_date(t) == t \div MinutesPerDay
dt_hour(t) == (t % MinutesPerDay) \div 60

\* df.groupby(df['DateTime'].dt.date).first()['Author']: for each date the
\* author of the first row of df, in df's row order, that has the date.
groupby_date_first(df) ==
    [d \in { dt_date(df[i].DateTime) : i \in DOMAIN df } |->
        LET at == { i \in DOMAIN df : dt_date(df[i].DateTime) = d }
        IN  df[CHOOSE i \in at : \A j \in at : i <= j].Author]

\* main.py:85-86: each author's share of the days, percent, one decimal.
initiation_index_of(df) ==
    LET first == groupby_date_first(df)
        initiation == [a \in { first[d] : d \in DOMAIN first } |->
                          Cardinality({ d \in DOMAIN first : first[d] = a })]
        total == Cardinality(DOMAIN first)
    IN  [a \in DOMAIN initiation |-> RoundHalfEven(initiation[a] * 1000, total)]

\* The orders of the rows at the indices in rest that are non-decreasing
\* in DateTime.
RECURSIVE sorted_orders(_, _)
sorted_orders(df, rest) ==
    IF rest = {} THEN { << >> }
    ELSE LET least == { i \in rest : \A j \in rest : df[i].DateTime <= df[j].DateTime }
         IN  UNION { { << df[i] >> \o tail : tail \in sorted_orders(df, rest \ {i}) } :
                     i \in least }

\* df.sort_values('DateTime'): the default kind is quicksort, which is not
\* stable, so rows with equal DateTime may come out in any order.
sort_values(df) == sorted_orders(df, DOMAIN df)

\* reply_loop without the test of main.py:91: every adjacent pair counts.
RECURSIVE reply_loop_every_pair(_, _, _)
reply_loop_every_pair(df_sorted, i, reply_times) ==
    IF i > Len(df_sorted) THEN reply_times
    ELSE reply_loop_every_pair(df_sorted, i + 1,
            setdefault_append(reply_times, df_sorted[i].Author,
                              df_sorted[i].DateTime - df_sorted[i - 1].DateTime))

\* The loop of main.py:90-93, from index i on: the minutes between row i and
\* row i-1 are appended to the later row's author when the authors differ.
RECURSIVE reply_loop(_, _, _)
reply_loop(df_sorted, i, reply_times) ==
    IF i > Len(df_sorted) THEN reply_times
    ELSE reply_loop(df_sorted, i + 1,
            IF df_sorted[i].Author # df_sorted[i - 1].Author
            THEN setdefault_append(reply_times, df_sorted[i].Author,
                                   df_sorted[i].DateTime - df_sorted[i - 1].DateTime)
            ELSE reply_times)

\* main.py:88-94: author -> round(mean of the minutes, 1), in tenths.
reply_times_of(df_sorted) ==
    LET lists == reply_loop(df_sorted, 2, <<>>)
    IN  [k \in DOMAIN lists |-> RoundHalfEven(SumSeq(lists[k]) * 10, Len(lists[k]))]

\* The loop of main.py:119-121: the minutes between row i and row i-1 are
\* appended to the author of row i.
RECURSIVE gaps_loop(_, _, _)
gaps_loop(df_sorted, i, gaps) ==
    IF i > Len(df_sorted) THEN gaps
    ELSE gaps_loop(df_sorted, i + 1,
            setdefault_append(gaps, df_sorted[i].Author,
                              df_sorted[i].DateTime - df_sorted[i - 1].DateTime))

\* main.py:118-122: author -> round(max of the hours, 2), in hundredths.
interaction_gaps_of(df_sorted) ==
    LET gaps == gaps_loop(df_sorted, 2, <<>>)
    IN  [k \in DOMAIN gaps |-> RoundHalfEven(MaxSeq(gaps[k]) * 100, 60)]

\* main.py:96-97: counts.min() / counts.max() as << numerator, denominator >>,
\* and 1 when there is a single author.
ratio_of(df) ==
    LET counts == value_counts(author_column(df))
        least == CHOOSE c \in { counts[a] : a \in DOMAIN counts } :
                    \A a \in DOMAIN counts : c <= counts[a]
        most == CHOOSE c \in { counts[a] : a \in DOMAIN counts } :
                    \A a \in DOMAIN counts : c >= counts[a]
    IN  IF Cardinality(DOMAIN counts) > 1 THEN << least, most >> ELSE << 1, 1 >>

\* ratio > 0.8
above_threshold(ratio) == ratio[1] * 10 > 8 * ratio[2]

\* main.py:98
engagement_balance_of(ratio) ==
    IF above_threshold(ratio) THEN "Balanced participation" ELSE "One-sided energy"

\* The first term of main.py:128, in thousandths: 1 if ratio > 0.8 else 0.5.
balance_indicator(ratio) == IF above_threshold(ratio) THEN 1000 ELSE 500

\* The second term of main.py:128, in thousandths: np.mean of no value is
\* nan, and nan < 30 is false.
reply_indicator(reply_times) ==
    LET n == Cardinality(DOMAIN reply_times)
        RECURSIVE total(_)
        total(S) == IF S = {} THEN 0
                    ELSE LET k == CHOOSE k \in S : TRUE
                         IN  reply_times[k] + total(S \ {k})
    IN  IF n > 0 /\ total(DOMAIN reply_times) < 300 * n THEN 1000 ELSE 600

\* df['Sentiment'].mean(), in thousandths.
sentiment_mean(df) ==
    SumSeq([i \in DOMAIN df |-> df[i].Message.polarity]) \div Len(df)

\* main.py:128: the mean of the three indicators as a percentage, one decimal
\* (tenths of a percent).
harmony_of(ratio, reply_times, df) ==
    RoundHalfEven(balance_indicator(ratio) + reply_indicator(reply_times)
                    + ((sentiment_mean(df) + 1000) \div 2), 3)

\* main.py:130
delulu_level_of(harmony) ==
    IF harmony > 750 THEN "Low" ELSE IF harmony > 500 THEN "Medium" ELSE "High"

\* main.py:100: date -> mean sentiment of the date's rows.
sentiment_timeline_of(df) ==
    [d \in { dt_date(df[i].DateTime) : i \in DOMAIN df } |->
        LET rows == SelectSeq(df, LAMBDA r : dt_date(r.DateTime) = d)
        IN  SumSeq([i \in DOMAIN rows |-> rows[i].Message.polarity]) \div Len(rows)]

\* main.py:101: the sample standard deviation, << >> standing for the nan of
\* a single row; the messages of the model all have one polarity.
sentiment_variability_of(df) == IF Len(df) < 2 THEN << >> ELSE << 0 >>

\* main.py:103-104
late_activity_of(df) ==
    value_counts(author_column(SelectSeq(df, LAMBDA r : dt_hour(r.DateTime) \in 0..4)))

\* emoji_usage(df), main.py:51-61
emoji_usage(df) ==
    [a \in { df[i].Author : i \in DOMAIN df } |->
        LET msgs == SelectSeq(df, LAMBDA r : r.Author = a)
        IN  SumSeq([i \in DOMAIN msgs |-> msgs[i].Message.emojis])]

\* main.py:108-116
communication_style_of(df) ==
    [auth \in { df[i].Author : i \in DOMAIN df } |->
        LET msgs == SelectSeq(df, LAMBDA r : r.Author = auth)
            words == SumSeq([i \in DOMAIN msgs |-> msgs[i].Message.words])
            q_marks == SumSeq([i \in DOMAIN msgs |-> msgs[i].Message.qmarks])
            style == IF words < 5 * Len(msgs) THEN "Concise"
                     ELSE IF words > 20 * Len(msgs) THEN "Elaborative" ELSE "Balanced"
        IN  IF q_marks * 10 > Len(msgs) * 3 THEN << style, "Curious" >> ELSE << style >>]

\* main.py:124-126: the messages of the model hold no word longer than three
\* characters, so the ranking is that of their (empty) keyword lists.
keyword_themes_of(df) == concat([i \in DOMAIN df |-> df[i].Message.keywords])

\* The dictionary of main.py:132-147.
bundle_of(df, df_sorted) ==
    LET reply_times == reply_times_of(df_sorted)
        ratio == ratio_of(df)
        harmony == harmony_of(ratio, reply_times, df)
    IN  [status |-> "done",
         total_messages |-> Len(df),
         initiation_index |-> initiation_index_of(df),
         reply_times |-> reply_times,
         engagement_balance |-> engagement_balance_of(ratio),
         sentiment_timeline |-> sentiment_timeline_of(df),
         sentiment_variability |-> sentiment_variability_of(df),
         late_activity |-> late_activity_of(df),
         emoji_usage |-> emoji_usage(df),
         communication_style |-> communication_style_of(df),
         interaction_gaps |-> interaction_gaps_of(df_sorted),
         keyword_themes |-> keyword_themes_of(df),
         harmony_score |-> harmony,
         delulu_level |-> delulu_level_of(harmony)]

\* ---------------------------------------------------- dashboard: parsing

\* The four patterns of streamlit_app.py:37-42, by the layout each matches.
patterns == << "dash", "secs", "bracket", "nocomma" >>

\* The two strptime attempts of streamlit_app.py:49-55 ("%d/%m/%Y %H:%M", then
\* with ":%S"): %Y takes four digits and the date must exist; one of the two
\* time formats fits the time every pattern captures.
strptime(line) ==
    IF line.yd = 4 /\ line.day # 0 THEN line.day * MinutesPerDay + line.hm ELSE NaT

\* streamlit_app.py:44-57 for one line: the row of the first pattern that
\* matches and whose date parses, or no row.
parse_line(line) ==
    LET hits == { k \in DOMAIN patterns :
                    line.shape = patterns[k] /\ strptime(line) # NaT }
    IN  IF hits = {} THEN << >>
        ELSE << [Datetime |-> strptime(line), User |-> line.author, Message |-> line.msg] >>

\* parse_chat(file), streamlit_app.py:31-60
parse_chat(file) ==
    LET lines == split_lines(file)
    IN  concat([i \in DOMAIN lines |-> parse_line(lines[i])])

\* ------------------------------------------------------------- operations

\* The frame of a scheduled process_full_chat(file_bytes, task_id) call.
NewTask(file_bytes) ==
    [pc |-> "scheduled", file_bytes |-> file_bytes, all_dfs |-> << >>,
     df |-> << >>, df_sorted |-> << >>, result |-> << >>, e |-> ""]

NoResponse == [op |-> "none", task_id |-> 0, body |-> << >>]

\* str(uuid.uuid4()): an identifier no earlier call returned.
uuid4 == Cardinality(DOMAIN RESULT_STORE) + 1

\* The identifiers a client may ask for: those issued or not.
TaskIds == 1..(MaxJobs + 1)

\* analyze_chat, main.py:158-164
analyze_chat(file_bytes) ==
    /\ Cardinality(DOMAIN RESULT_STORE) < MaxJobs
    /\ LET task_id == uuid4
       IN  /\ RESULT_STORE' = RESULT_STORE @@ (task_id :> [status |-> "processing"])
           /\ tasks' = tasks @@ (task_id :> NewTask(file_bytes))
           /\ response' = [op |-> "analyze_chat", task_id |-> task_id,
                           body |-> [status |-> "processing", task_id |-> task_id]]
    /\ UNCHANGED dash

\* get_result indexing the registry (RESULT_STORE[task_id]): an unknown
\* identifier is a KeyError, reported as an error.
get_result_indexing(task_id) ==
    /\ response' = [op |-> "get_result", task_id |-> task_id,
                    body |-> IF task_id \in DOMAIN RESULT_STORE
                             THEN RESULT_STORE[task_id]
                             ELSE [status |-> "error", message |-> "KeyError"]]
    /\ UNCHANGED << RESULT_STORE, tasks, dash >>

\* get_result, main.py:166-168
get_result(task_id) ==
    /\ response' = [op |-> "get_result", task_id |-> task_id,
                    body |-> IF task_id \in DOMAIN RESULT_STORE
                             THEN RESULT_STORE[task_id]
                             ELSE [status |-> "processing"]]
    /\ UNCHANGED << RESULT_STORE, tasks, dash >>

\* process_full_chat, main.py:67-74: decode, split, parse the chunks.
process_parse(task_id) ==
    /\ task_id \in DOMAIN tasks
    /\ tasks[task_id].pc = "scheduled"
    /\ tasks' = [tasks EXCEPT ![task_id].pc = "parsed",
                              ![task_id].all_dfs = all_dfs_of(tasks[task_id].file_bytes)]
    /\ UNCHANGED << RESULT_STORE, response, dash >>

\* process_no_data returning without an entry: a bare return at main.py:77.
process_no_data_silent(task_id) ==
    /\ task_id \in DOMAIN tasks
    /\ tasks[task_id].pc = "parsed"
    /\ tasks[task_id].all_dfs = << >>
    /\ tasks' = [tasks EXCEPT ![task_id].pc = "returned"]
    /\ UNCHANGED << RESULT_STORE, response, dash >>

\* process_no_data without its return: pd.concat of no frame raises, and the
\* handler writes the entry a second time.
process_no_data_no_return(task_id) ==
    /\ task_id \in DOMAIN tasks
    /\ tasks[task_id].pc = "parsed"
    /\ tasks[task_id].all_dfs = << >>
    /\ RESULT_STORE' = [RESULT_STORE EXCEPT ![task_id] =
            [status |-> "error", message |-> "No valid chat data found."]]
    /\ tasks' = [tasks EXCEPT ![task_id].pc = "except",
                              ![task_id].e = "No objects to concatenate"]
    /\ UNCHANGED << response, dash >>

\* process_full_chat, main.py:76-78: no frame, the error entry, return.
process_no_data(task_id) ==
    /\ task_id \in DOMAIN tasks
    /\ tasks[task_id].pc = "parsed"
    /\ tasks[task_id].all_dfs = << >>
    /\ RESULT_STORE' = [RESULT_STORE EXCEPT ![task_id] =
            [status |-> "error", message |-> "No valid chat data found."]]
    /\ tasks' = [tasks EXCEPT ![task_id].pc = "returned"]
    /\ UNCHANGED << response, dash >>

\* process_full_chat, main.py:80-130: the table and every metric, into locals.
process_features(task_id) ==
    /\ task_id \in DOMAIN tasks
    /\ tasks[task_id].pc = "parsed"
    /\ tasks[task_id].all_dfs # << >>
    /\ \E df \in { concat(tasks[task_id].all_dfs) } :
          \E df_sorted \in sort_values(df) :
             \E result \in { bundle_of(df, df_sorted) } :
                tasks' = [tasks EXCEPT ![task_id].pc = "computed",
                                       ![task_id].df = df,
                                       ![task_id].df_sorted = df_sorted,
                                       ![task_id].result = result]
    /\ UNCHANGED << RESULT_STORE, response, dash >>

\* process_full_chat, main.py:80-130: a library call of the metric section
\* raises (pandas, numpy; get_sentiment swallows TextBlob's own).
process_raise(task_id) ==
    /\ task_id \in DOMAIN tasks
    /\ tasks[task_id].pc = "parsed"
    /\ tasks[task_id].all_dfs # << >>
    /\ tasks' = [tasks EXCEPT ![task_id].pc = "except",
                              ![task_id].df = concat(tasks[task_id].all_dfs),
                              ![task_id].e = "library error"]
    /\ UNCHANGED << RESULT_STORE, response, dash >>

\* process_store filling the registered entry in place: the status first,
\* the metrics in a later step.
process_store_in_place(task_id) ==
    /\ task_id \in DOMAIN tasks
    /\ tasks[task_id].pc = "computed"
    /\ IF RESULT_STORE[task_id].status = "processing"
       THEN /\ RESULT_STORE' = [RESULT_STORE EXCEPT ![task_id] =
                    [status |-> "done",
                     total_messages |-> tasks[task_id].result.total_messages]]
            /\ UNCHANGED tasks
       ELSE /\ RESULT_STORE' = [RESULT_STORE EXCEPT ![task_id] = tasks[task_id].result]
            /\ tasks' = [tasks EXCEPT ![task_id].pc = "returned"]
    /\ UNCHANGED << response, dash >>

\* process_full_chat, main.py:132-147: the one assignment of the done entry.
process_store(task_id) ==
    /\ task_id \in DOMAIN tasks
    /\ tasks[task_id].pc = "computed"
    /\ RESULT_STORE' = [RESULT_STORE EXCEPT ![task_id] = tasks[task_id].result]
    /\ tasks' = [tasks EXCEPT ![task_id].pc = "returned"]
    /\ UNCHANGED << response, dash >>

\* process_full_chat, main.py:149-150: the handler's error entry.
process_except(task_id) ==
    /\ task_id \in DOMAIN tasks
    /\ tasks[task_id].pc = "except"
    /\ RESULT_STORE' = [RESULT_STORE EXCEPT ![task_id] =
            [status |-> "error", message |-> tasks[task_id].e]]
    /\ tasks' = [tasks EXCEPT ![task_id].pc = "returned"]
    /\ UNCHANGED << response, dash >>

\* One step of the background call for task_id.
process_full_chat(task_id) ==
    \/ process_parse(task_id)
    \/ process_no_data(task_id)
    \/ process_features(task_id)
    \/ process_raise(task_id)
    \/ process_store(task_id)
    \/ process_except(task_id)

\* The identifiers analyze_chat can have issued.
Issued == 1..MaxJobs

\* streamlit_app.py:63-68: parse the uploaded file; an empty table is
\* reported and the script stops.
dashboard_stop ==
    /\ dash.stage = "uploaded"
    /\ parse_chat(dash.file) = << >>
    /\ dash' = [dash EXCEPT !.stage = "stopped", !.df = << >>]
    /\ UNCHANGED << RESULT_STORE, tasks, response >>

\* streamlit_app.py:63-78: a non-empty table goes on to the metrics.
dashboard_metrics ==
    /\ dash.stage = "uploaded"
    /\ parse_chat(dash.file) # << >>
    /\ LET df == parse_chat(dash.file)
       IN  dash' = [dash EXCEPT !.stage = "metrics", !.df = df,
                                !.total_messages = Len(df)]
    /\ UNCHANGED << RESULT_STORE, tasks, response >>

\* --------------------------------------------------------- specifications

\* The registry: up to MaxJobs uploads, their background calls and any polls.
Init ==
    /\ RESULT_STORE = << >>
    /\ tasks = << >>
    /\ response = NoResponse
    /\ dash = [stage |-> "waiting", file |-> << >>, df |-> << >>, total_messages |-> 0]

Upload == \E file_bytes \in SampleUploads : analyze_chat(file_bytes)

Background == \E task_id \in Issued : process_full_chat(task_id)

Poll == \E task_id \in TaskIds : get_result(task_id)

Next == Upload \/ Background \/ Poll

Spec == Init /\ [][Next]_vars

\* One export of at most MaxLines lines, given to the dashboard and, when
\* its script run has ended, posted once to the backend (the two programs
\* share nothing, so the order of their steps changes no result).
InitOne ==
    /\ RESULT_STORE = << >>
    /\ tasks = << >>
    /\ response = NoResponse
    /\ \E file \in Uploads :
          dash = [stage |-> "uploaded", file |-> file, df |-> << >>, total_messages |-> 0]

UploadOne ==
    /\ dash.stage # "uploaded"
    /\ DOMAIN RESULT_STORE = {}
    /\ analyze_chat(dash.file)

NextOne == UploadOne \/ Background \/ dashboard_stop \/ dashboard_metrics

SpecOne == InitOne /\ [][NextOne]_vars

\* One upload of at most MaxLiveLines lines posted to the backend, whose
\* scheduled background call runs, and runs on, once the response is sent.
UploadAny ==
    \E file_bytes \in LiveUploads : DOMAIN RESULT_STORE = {} /\ analyze_chat(file_bytes)

NextJob == UploadAny \/ Background

FairJob ==
    /\ Init /\ [][NextJob]_vars
    /\ \A task_id \in Issued : WF_vars(process_full_chat(task_id))

\* ------------------------------------------------------- registry claims

IsProcessing(entry) == DOMAIN entry = {"status"} /\ entry.status = "processing"

\* The keys of the done entry.
BundleFields ==
    { "status", "total_messages", "initiation_index", "reply_times",
      "engagement_balance", "sentiment_timeline", "sentiment_variability",
      "late_activity", "emoji_usage", "communication_style", "interaction_gaps",
      "keyword_themes", "harmony_score", "delulu_level" }

\* A complete done entry or a complete error entry.
IsComplete(entry) ==
    \/ entry.status = "done" /\ DOMAIN entry = BundleFields
    \/ entry.status = "error" /\ DOMAIN entry = {"status", "message"}

\* C1: every entry of the registry is created as {status: processing}; a
\* step leaves a processing entry processing or makes it done or error; a
\* done or error entry is never changed again, and no entry is ever removed.
C1_WriteOnce ==
    [][ /\ \A id \in DOMAIN RESULT_STORE' \ DOMAIN RESULT_STORE :
              IsProcessing(RESULT_STORE'[id])
        /\ \A id \in DOMAIN RESULT_STORE :
              /\ id \in DOMAIN RESULT_STORE'
              /\ RESULT_STORE'[id].status \in {"processing", "done", "error"}
              /\ RESULT_STORE[id].status # "processing"
                    => RESULT_STORE'[id] = RESULT_STORE[id]
              /\ RESULT_STORE'[id].status = "processing"
                    => RESULT_STORE[id].status = "processing" ]_vars

\* C1 witness: one job has ended done and another has ended in error.
C1_Witness ==
    \E a, b \in DOMAIN RESULT_STORE :
        /\ RESULT_STORE[a].status = "done" /\ tasks[a].pc = "returned"
        /\ RESULT_STORE[b].status = "error" /\ tasks[b].pc = "returned"

\* C2: with the background call scheduled fairly, every accepted job leaves
\* processing: its entry becomes done or error, whatever the upload holds;
\* and a call that has returned has left a done or an error entry.
C2_LeavesProcessing ==
    /\ \A id \in Issued :
          (id \in DOMAIN RESULT_STORE)
              ~> (id \in DOMAIN RESULT_STORE
                    /\ RESULT_STORE[id].status \in {"done", "error"})
    /\ [](\A id \in DOMAIN tasks :
              tasks[id].pc = "returned" =>
                  /\ RESULT_STORE[id].status \in {"done", "error"}
                  /\ IsComplete(RESULT_STORE[id]))

\* C2 witness: the job of an empty upload, of a one-record upload and of a
\* one-author upload has returned, in error or done.
C2_Witness ==
    \E id \in DOMAIN tasks :
        /\ tasks[id].pc = "returned"
        /\ \/ tasks[id].file_bytes = << >> /\ RESULT_STORE[id].status = "error"
           \/ /\ Len(tasks[id].df) = 1 /\ RESULT_STORE[id].status = "done"
              /\ Len(tasks[id].file_bytes) = 3

\* C3: a get_result for an identifier analyze_chat has not issued returns
\* exactly {status: processing}, whatever the registry holds.
C3_UnknownIdProcessing ==
    (response.op = "get_result" /\ response.task_id \notin DOMAIN RESULT_STORE)
        => IsProcessing(response.body)

\* C3 witness: an identifier never issued was polled while the registry held
\* a finished job and a job in progress.
C3_Witness ==
    /\ response.op = "get_result"
    /\ response.task_id = MaxJobs + 1
    /\ \E a, b \in DOMAIN RESULT_STORE :
          RESULT_STORE[a].status = "done" /\ RESULT_STORE[b].status = "processing"

\* C4: what a get_result of an issued identifier returned is the entry as
\* created, {status: processing}, or the complete entry the background call
\* wrote (all fourteen fields of a done entry, or status and message of an
\* error entry), which is the entry the registry holds.
C4_NoTornRead ==
    (response.op = "get_result" /\ response.task_id \in DOMAIN RESULT_STORE)
        => \/ IsProcessing(response.body)
           \/ /\ IsComplete(response.body)
              /\ response.body = RESULT_STORE[response.task_id]

\* C4 witness: a poll returned the complete done entry of a job.
C4_Witness ==
    /\ response.op = "get_result"
    /\ response.task_id \in DOMAIN RESULT_STORE
    /\ response.body.status = "done"
    /\ response.body = tasks[response.task_id].result

\* -------------------------------------------------------- pipeline claims

\* No line of the upload is a message the backend makes a record of: a
\* D/M/Y, H:MM - Author: Message line whose date is a date.
NoBackendRecord(file) ==
    \A i \in DOMAIN file : ~(file[i].shape = "dash" /\ file[i].day # 0)

\* No line of the upload is a message the dashboard makes a record of: a line
\* of one of its four layouts with a four-digit year and a date that is a date.
NoDashboardRecord(file) ==
    \A i \in DOMAIN file :
        ~(file[i].shape \in {"dash", "secs", "bracket", "nocomma"}
            /\ file[i].yd = 4 /\ file[i].day # 0)

\* C5: when no line of the upload yields a record, the background call never
\* reaches the metrics (no table, no bundle, no exception) and, once it has
\* returned, the entry is an error entry with a non-empty message; the
\* dashboard parses an empty table and stops before its metrics.
C5_EmptyShortCircuits ==
    /\ \A id \in DOMAIN tasks :
          NoBackendRecord(tasks[id].file_bytes) =>
              /\ tasks[id].pc \in {"scheduled", "parsed", "returned"}
              /\ tasks[id].df = << >> /\ tasks[id].result = << >>
              /\ tasks[id].pc # "returned" => IsProcessing(RESULT_STORE[id])
              /\ tasks[id].pc = "returned" =>
                    /\ RESULT_STORE[id].status = "error"
                    /\ DOMAIN RESULT_STORE[id] = {"status", "message"}
                    /\ RESULT_STORE[id].message # ""
    /\ NoDashboardRecord(dash.file) =>
          /\ dash.stage \in {"uploaded", "stopped"}
          /\ dash.df = << >>

\* C5 witness: an upload of three lines, none a record, has stopped the
\* dashboard and ended its job in error.
C5_Witness ==
    /\ Len(dash.file) = 3
    /\ NoBackendRecord(dash.file) /\ NoDashboardRecord(dash.file)
    /\ \E i \in DOMAIN dash.file : dash.file[i].shape = "dash"
    /\ dash.stage = "stopped"
    /\ 1 \in DOMAIN tasks /\ tasks[1].pc = "returned"
    /\ RESULT_STORE[1].status = "error"

\* The frames whose metrics have been computed.
Computed == { id \in DOMAIN tasks : tasks[id].result # << >> }

IsSorted(rows) ==
    \A i, j \in DOMAIN rows : i < j => rows[i].DateTime <= rows[j].DateTime

\* s is an arrangement of the rows of df.
SameRows(s, df) ==
    /\ Len(s) = Len(df)
    /\ \A i \in DOMAIN df :
          Cardinality({ j \in DOMAIN s : s[j] = df[i] })
            = Cardinality({ j \in DOMAIN df : df[j] = df[i] })

\* The positions of s where author replies: the row is author's and the row
\* before it is another author's.
ReplyPositions(s, author) ==
    { i \in 2..Len(s) : s[i].Author = author /\ s[i - 1].Author # author }

\* The minutes before the rows at the positions P of s, summed.
MinutesAt(s, P) ==
    SumSeq([i \in 1..Len(s) |-> IF i \in P THEN s[i].DateTime - s[i - 1].DateTime ELSE 0])

\* r is n / d rounded to an integer: within a half, and even on a half.
IsRounded(r, n, d) ==
    /\ 2 * (r * d - n) <= d
    /\ 2 * (n - r * d) <= d
    /\ (2 * (r * d - n) = d \/ 2 * (n - r * d) = d) => r % 2 = 0

TheScenario == << Dash(1, 600, "Alice"), Dash(1, 605, "Bob"), Dash(1, 606, "Bob") >>

\* C8: the reply times are computed over the records in timestamp order; an
\* author is in the result exactly when some record of theirs follows a
\* record of another author, and their value is the mean of the minutes of
\* those transitions, rounded to one decimal; for Alice 10:00, Bob 10:05,
\* Bob 10:06 the result is {Bob: 5.0}.
C8_ReplyTimes ==
    \A id \in Computed :
        LET s == tasks[id].df_sorted
            reply_times == tasks[id].result.reply_times
        IN  /\ IsSorted(s) /\ SameRows(s, tasks[id].df)
            /\ DOMAIN reply_times =
                  { a \in { s[i].Author : i \in DOMAIN s } : ReplyPositions(s, a) # {} }
            /\ \A a \in DOMAIN reply_times :
                  IsRounded(reply_times[a],
                            10 * MinutesAt(s, ReplyPositions(s, a)),
                            Cardinality(ReplyPositions(s, a)))
            /\ tasks[id].file_bytes = TheScenario
                  => DOMAIN reply_times = {"Bob"} /\ reply_times["Bob"] = 50

\* C8 witness: a table where an author replies twice, after different
\* delays, so that the value is a mean of two.
C8_Witness ==
    \E id \in Computed :
        LET s == tasks[id].df_sorted
        IN  \E a \in DOMAIN tasks[id].result.reply_times :
               /\ Cardinality(ReplyPositions(s, a)) = 2
               /\ \E i, j \in ReplyPositions(s, a) :
                     s[i].DateTime - s[i - 1].DateTime # s[j].DateTime - s[j - 1].DateTime

\* C6: the table the metrics are computed from is sorted by timestamp, and
\* the record the initiation index credits for a day is a chronologically
\* earliest record of that day.
C6_TableSorted ==
    \A id \in Computed :
        LET df == tasks[id].df
            first == groupby_date_first(df)
        IN  /\ IsSorted(df)
            /\ \A d \in DOMAIN first :
                  \E i \in DOMAIN df :
                     /\ dt_date(df[i].DateTime) = d /\ df[i].Author = first[d]
                     /\ \A j \in DOMAIN df :
                           dt_date(df[j].DateTime) = d => df[i].DateTime <= df[j].DateTime

\* The distinct authors of a table.
AuthorsOf(df) == { df[i].Author : i \in DOMAIN df }

\* C7: with fewer than two distinct authors the engagement balance is
\* "insufficient data"; the balanced / unbalanced classes are reported only
\* with two authors or more.
C7_InsufficientData ==
    \A id \in Computed :
        Cardinality(AuthorsOf(tasks[id].df)) < 2
            <=> tasks[id].result.engagement_balance = "insufficient data"

\* C9: with exactly one author the bundle is computed and stored, and the
\* balance indicator in the harmony average is 0.5: the score is the mean of
\* 0.5, the reply-speed indicator and the normalised sentiment.
C9_SingleAuthorHarmony ==
    \A id \in DOMAIN tasks :
        (tasks[id].df # << >> /\ Cardinality(AuthorsOf(tasks[id].df)) = 1)
            => /\ (tasks[id].pc = "returned" /\ tasks[id].e = "")
                     => RESULT_STORE[id].status = "done"
               /\ id \in Computed =>
                     /\ balance_indicator(ratio_of(tasks[id].df)) = 500
                     /\ tasks[id].result.harmony_score =
                           RoundHalfEven(500 + reply_indicator(tasks[id].result.reply_times)
                                           + ((sentiment_mean(tasks[id].df) + 1000) \div 2), 3)

\* C10: an author is in the interaction gaps exactly when some record of
\* theirs follows a record of another author, and their value is the longest
\* wait before such a record, in hours to two decimals; the wait between two
\* consecutive records of one author is not counted.
C10_GapsWhenReplying ==
    \A id \in Computed :
        LET s == tasks[id].df_sorted
            gaps == tasks[id].result.interaction_gaps
        IN  /\ DOMAIN gaps =
                  { a \in AuthorsOf(s) : ReplyPositions(s, a) # {} }
            /\ \A a \in DOMAIN gaps :
                  \E i \in ReplyPositions(s, a) :
                     /\ \A j \in ReplyPositions(s, a) :
                           s[j].DateTime - s[j - 1].DateTime <= s[i].DateTime - s[i - 1].DateTime
                     /\ IsRounded(gaps[a], 100 * (s[i].DateTime - s[i - 1].DateTime), 60)

====
